---- MODULE Spec2Model ----
(***************************************************************************)
(* A model of EI_MCMC_bayesian_optimization/searcher.py: the Searcher      *)
(* (suggest and the helpers it calls), Searcher.acq_max on its own and     *)
(* UtilityFunction._ei.                                                    *)
(*                                                                         *)
(* Numbers.  Parameter values are integers counted in half steps, so that  *)
(* a continuous candidate can lie between two valid coordinates: the       *)
(* coordinate list [0, 1, 2] of the source is <<0, 2, 4>> here and the     *)
(* continuous interval [0, 2] is 0..4.  improve_step is the exact rational *)
(* num/den.  Expected-Improvement values are in thousandths, with NaN as a *)
(* value of its own.                                                       *)
(*                                                                         *)
(* Worker pools.  A task submitted with apply_async is "running" until its *)
(* worker finishes and "ready" after; what the task produced (a value or   *)
(* an exception) is what the parent's r.get() yields, drawn when the       *)
(* parent reads it (each result is read once).                             *)
(***************************************************************************)
EXTENDS Integers, Sequences, FiniteSets, TLC

VARIABLES
    parameters_config,      \* self.parameters_config: name -> [coords, min, max]
    n_suggestions,          \* the n_suggestion the driver asks for in every round
    de_duplication,         \* self.de_duplication
    iter,                   \* self.iter
    improve_step,           \* self.improve_step, as [num, den]
    gp,                     \* self.gp: the ensemble
    pc,                     \* where suggest is: idle, fitting, searching, returned, raised
    raised,                 \* which phase's exception left suggest: none, fit, search
    suggestions_history,    \* the argument of the current call
    fit_res_l,              \* train_gps' res_l: the fit tasks of this round
    res_l,                  \* suggest's res_l: the search tasks of this round
    collected,              \* index of suggest's collecting loop: results read so far
    suggestions_candidate,  \* (candidate vector, adjusted score), sorted at the end
    suggestions,            \* the vectors chosen by the walk, the backfill or the top-k
    origin,                 \* per chosen vector: "candidate" or "random"
    examined,               \* j when the de-duplication walk ended
    next_suggestions,       \* what suggest returned
    rounds_with_history,    \* history variable: calls so far with a non-empty history
    ei_pred,                \* _ei: per member, per candidate of the batch, (mean, std)
    ei_x_i,                 \* _ei: x_i
    ei_y_max,               \* _ei: y_max
    ei_done,                \* _ei: members the loop has folded in
    maximum,                \* _ei: maximum
    acq_pc,                 \* where acq_max is: idle, warm, returned
    x_tries,                \* acq_max: the warm-up points
    ys,                     \* acq_max: their acquisition values
    best_x,                 \* acq_max: x_max, the incumbent
    best_acq,               \* acq_max: max_acq, the incumbent's acquisition value
    acq_runs,               \* history variable: the local runs so far, each with
                            \* its result and the incumbent it left
    acq_result              \* what acq_max returned: (clipped x_max, max_acq)

searcher_vars == <<parameters_config, n_suggestions, de_duplication, iter,
                   improve_step, gp, pc, raised, suggestions_history, fit_res_l,
                   res_l, collected, suggestions_candidate, suggestions, origin, examined,
                   next_suggestions, rounds_with_history>>

ei_vars == <<ei_pred, ei_x_i, ei_y_max, ei_done, maximum>>

acq_vars == <<acq_pc, x_tries, ys, best_x, best_acq, acq_runs, acq_result>>

vars == <<parameters_config, n_suggestions, de_duplication, iter,
          improve_step, gp, pc, raised, suggestions_history, fit_res_l,
          res_l, collected, suggestions_candidate, suggestions, origin, examined,
          next_suggestions, rounds_with_history,
          ei_pred, ei_x_i, ei_y_max, ei_done, maximum,
          acq_pc, x_tries, ys, best_x, best_acq, acq_runs, acq_result>>

(***************************************************************************)
(* Bounds and program constants                                            *)
(***************************************************************************)
\* suggest is called at most MaxIter times on one Searcher.
MaxIter == 2

\* _ei is given an ensemble of at most MaxMembers models.
MaxMembers == 2

NumGP == 7

ImproveStep == 3

Lambda == 1

\* self.decay_rate = 0.9, as DecayNum / DecayDen
DecayNum == 9

DecayDen == 10

\* De_duplication is a module-level switch; both settings are modelled.
DeDuplicationSettings == BOOLEAN

\* Raw acquisition values a maximizer search returns (max_acq).
AcqValues == {0, 1}

\* Rewards of the observations in a history.
Rewards == {-5}

\* The alphabetical order of the parameter names (sorted(..., key=name)).
NameOrder == <<"p1", "p2">>

\* A Searcher is constructed with a parameter space and the n_suggestion the
\* driver then passes to every suggest call.
Scenarios ==
    { [config |-> [p1 |-> [coords |-> <<0, 2, 4>>, min |-> 0, max |-> 4]], n |-> 1],
      [config |-> [p1 |-> [coords |-> <<0, 2>>, min |-> 0, max |-> 2]], n |-> 2],
      [config |-> [p1 |-> [coords |-> <<0, 2>>, min |-> 0, max |-> 2],
                   p2 |-> [coords |-> <<5>>, min |-> 5, max |-> 5]], n |-> 1] }

(***************************************************************************)
(* Parameter space helpers                                                 *)
(***************************************************************************)
Abs(x) == IF x < 0 THEN -x ELSE x

SeqToSet(s) == { s[i] : i \in 1..Len(s) }

\* [p_name for p_name, p_conf in sorted(config.items(), key=name)]
p_names(config) == SelectSeq(NameOrder, LAMBDA nm : nm \in DOMAIN config)

\* np.argmin: the first index of the smallest entry.
ArgMin(s) ==
    CHOOSE i \in 1..Len(s) :
        /\ \A m \in 1..Len(s) : s[i] <= s[m]
        /\ \A m \in 1..(i - 1) : s[m] > s[i]

\* get_param_value without the snapping: the value is passed through.
get_param_value_unsnapped(config, p_name, value) == value

\* get_param_value (in get_valid_suggestion and in parse_suggestions): the
\* value itself when it is a valid coordinate, else the closest coordinate.
get_param_value(config, p_name, value) ==
    LET p_coords == config[p_name].coords
        subtract == [i \in 1..Len(p_coords) |-> Abs(p_coords[i] - value)]
    IN  IF value \in SeqToSet(p_coords) THEN value ELSE p_coords[ArgMin(subtract)]

\* get_valid_suggestion: a candidate vector snapped coordinate by coordinate.
get_valid_suggestion(config, suggestion) ==
    [index \in 1..Len(suggestion) |->
        get_param_value(config, p_names(config)[index], suggestion[index])]

\* parse_suggestions, for one vector: the assignment name -> snapped value.
parse_suggestion(config, suggestion) ==
    [p_name \in SeqToSet(SubSeq(p_names(config), 1, Len(suggestion))) |->
        get_param_value(config, p_name,
            suggestion[CHOOSE index \in 1..Len(suggestion) :
                           p_names(config)[index] = p_name])]

parse_suggestions(config, vectors) ==
    [s \in 1..Len(vectors) |-> parse_suggestion(config, vectors[s])]

\* random_sample: every vector it can draw, one valid coordinate per
\* parameter in name order.
random_sample(config) ==
    { v \in [1..Len(p_names(config)) ->
                UNION { SeqToSet(config[nm].coords) : nm \in DOMAIN config }] :
        \A index \in 1..Len(p_names(config)) :
            v[index] \in SeqToSet(config[p_names(config)[index]].coords) }

\* init_param_group: every list of n assignments it can draw.
init_param_group(config, n) ==
    [1..n -> { a \in [DOMAIN config ->
                        UNION { SeqToSet(config[nm].coords) : nm \in DOMAIN config }] :
                 \A nm \in DOMAIN config : a[nm] \in SeqToSet(config[nm].coords) }]

\* get_bounds: per parameter in name order, <<min, max>>.
get_bounds(config) ==
    [index \in 1..Len(p_names(config)) |->
        <<config[p_names(config)[index]].min, config[p_names(config)[index]].max>>]

\* np.clip(x_max, bounds[:, 0], bounds[:, 1]) at the end of acq_max.
clip(x_max, bounds) ==
    [index \in 1..Len(x_max) |->
        IF x_max[index] < bounds[index][1] THEN bounds[index][1]
        ELSE IF x_max[index] > bounds[index][2] THEN bounds[index][2]
        ELSE x_max[index]]

\* What the local optimizer can hand to the clip: any point of the box, or
\* one overshooting a bound by a small amount.
RawCandidates(config) ==
    { v \in [1..Len(p_names(config)) ->
                UNION { (config[nm].min - 1)..(config[nm].max + 1) : nm \in DOMAIN config }] :
        \A index \in 1..Len(p_names(config)) :
            v[index] \in (config[p_names(config)[index]].min - 1)
                         ..(config[p_names(config)[index]].max + 1) }

\* parse_suggestions_history: x_datas, the observations' vectors in name order.
x_datas(config, history) ==
    [h \in 1..Len(history) |->
        [index \in 1..Len(p_names(config)) |-> history[h][1][p_names(config)[index]]]]

y_datas(history) == [h \in 1..Len(history) |-> history[h][2]]

\* The histories a driver passes: the grid's points, each observed at most
\* once, in the grid's order, with a reward each.  The empty one is the
\* bootstrap round's.
GridSeq(config) ==
    LET pts == random_sample(config)
        RECURSIVE Enum(_)
        Enum(left) ==
            IF left = {} THEN <<>>
            ELSE LET v == CHOOSE u \in left :
                              \A w \in left :
                                  \E index \in 1..(Len(u) + 1) :
                                      /\ \A m \in 1..(index - 1) : u[m] = w[m]
                                      /\ index = Len(u) + 1 \/ u[index] < w[index]
                 IN  <<v>> \o Enum(left \ {v})
    IN  Enum(pts)

Assignment(config, v) ==
    [nm \in DOMAIN config |->
        v[CHOOSE index \in 1..Len(v) : p_names(config)[index] = nm]]

Histories(config) ==
    LET grid == GridSeq(config)
        Pick(keep) == SelectSeq([i \in 1..Len(grid) |-> <<i, grid[i]>>],
                                LAMBDA e : e[1] \in keep)
    IN  UNION { { [h \in 1..Len(Pick(keep)) |->
                      <<Assignment(config, Pick(keep)[h][2]), rw[h]>>] :
                    rw \in [1..Len(Pick(keep)) -> Rewards] } :
                keep \in SUBSET (1..Len(grid)) }

(***************************************************************************)
(* Ranking and de-duplication (the tail of suggest)                        *)
(***************************************************************************)
\* The sort without reverse=True: ascending by adjusted score.
SortAscending(cands) ==
    LET RECURSIVE Ins(_, _)
        Ins(done, c) ==
            IF done = <<>> THEN <<c>>
            ELSE IF Head(done).score <= c.score THEN <<Head(done)>> \o Ins(Tail(done), c)
            ELSE <<c>> \o done
        RECURSIVE Run(_, _)
        Run(done, left) ==
            IF left = <<>> THEN done ELSE Run(Ins(done, Head(left)), Tail(left))
    IN  Run(<<>>, cands)

\* suggestions_candidate.sort(key=lambda y: y[1], reverse=True): descending by
\* adjusted score, candidates of equal score keeping their order.
sort_candidates(cands) ==
    LET RECURSIVE Ins(_, _)
        Ins(done, c) ==
            IF done = <<>> THEN <<c>>
            ELSE IF Head(done).score >= c.score THEN <<Head(done)>> \o Ins(Tail(done), c)
            ELSE <<c>> \o done
        RECURSIVE Run(_, _)
        Run(done, left) ==
            IF left = <<>> THEN done ELSE Run(Ins(done, Head(left)), Tail(left))
    IN  Run(<<>>, cands)

\* The duplicate test without get_valid_suggestion: the raw candidate is compared.
is_duplicate_raw(config, xs, candidate) ==
    \E d \in 1..Len(xs) : xs[d] = candidate

\* The inner loop of the walk: the snapped candidate equals some history vector.
is_duplicate(config, xs, candidate) ==
    \E d \in 1..Len(xs) : xs[d] = get_valid_suggestion(config, candidate)

\* The first while loop of the de-duplication branch, from i = 0, j = 0.
RECURSIVE walk(_, _, _, _, _, _)
walk(config, xs, cands, n, j, acc) ==
    IF Len(acc) < n /\ j < Len(cands)
    THEN IF is_duplicate(config, xs, cands[j + 1].x)
         THEN walk(config, xs, cands, n, j + 1, acc)
         ELSE walk(config, xs, cands, n, j + 1, Append(acc, cands[j + 1].x))
    ELSE [suggestions |-> acc, j |-> j]

\* The de-duplication branch without its second while loop: nothing is added.
backfill_none(config, count) == { <<>> }

\* The second while loop: count random samples.
backfill(config, count) == [1..count -> random_sample(config)]

\* for i in range(n_suggestions): suggestions.append(suggestions_candidate[i][0])
top_k(cands, n) == [i \in 1..n |-> cands[i].x]

(***************************************************************************)
(* UtilityFunction._ei                                                     *)
(***************************************************************************)
\* A float is a number of thousandths, or NaN.
NaN == [nan |-> TRUE, v |-> 0]

Float(v) == [nan |-> FALSE, v |-> v]

\* maximum = None
None == <<>>

\* The predictions single_predict can return for one candidate.
Means == {-1, 0, 1}

Stds == {0, 1}

BatchSizes == {1, 2}

XiValues == {0, 1}

\* a * norm.cdf(a) + norm.pdf(a) in thousandths, for std = 1:
\* 0.0085, 0.0833, 0.3989, 1.0833, 2.0085.
EIUnitStd == [a \in -2..2 |->
                 CASE a = -2 -> 8 [] a = -1 -> 83 [] a = 0 -> 399
                   [] a = 1 -> 1083 [] a = 2 -> 2008]

\* One member's value at one candidate: a_a = mean - y_max - x_i,
\* z_z = a_a / std, x = a_a * norm.cdf(z_z) + std * norm.pdf(z_z), with the
\* division warnings ignored.  std = 0 gives z_z = +inf, -inf or (0/0) NaN,
\* and with it x = a_a, x = 0 or x = NaN.
ei_value(mean, std, y_max, x_i) ==
    LET a_a == mean - y_max - x_i
    IN  IF std = 0
        THEN IF a_a = 0 THEN NaN
             ELSE IF a_a > 0 THEN Float(1000 * a_a)
             ELSE Float(0)
        ELSE Float(EIUnitStd[a_a])

\* A float comparison: false whenever an operand is NaN.
less(p, q) == ~p.nan /\ ~q.nan /\ p.v < q.v

\* One turn of "for gp in g_p": the member's x over the batch, then
\* maximum = x when maximum is None, else maximum[maximum < x] = x[maximum < x].
ei_fold(acc, member, y_max, x_i) ==
    LET x == [c \in 1..Len(member) |->
                 ei_value(member[c].mean, member[c].std, y_max, x_i)]
    IN  IF acc = None THEN x
        ELSE [c \in 1..Len(member) |-> IF less(acc[c], x[c]) THEN x[c] ELSE acc[c]]

\* acq_max is not running.
AcqIdle ==
    /\ acq_pc = "idle"
    /\ x_tries = <<>>
    /\ ys = <<>>
    /\ best_x = <<>>
    /\ best_acq = None
    /\ acq_runs = <<>>
    /\ acq_result = <<>>

(***************************************************************************)
(* The Searcher                                                            *)
(***************************************************************************)
\* __init__: gp_num models, none fitted; kernel 0 is the constructor's draw.
\* A model is the round its kernel was drawn in and the round it was last fitted in.
InitEnsemble == [i \in 1..NumGP |-> [kernel |-> 0, fitted |-> 0]]

\* The empty-history test failing for every history: no call is a bootstrap call.
never_empty(history) == FALSE

\* (suggestions_history is None) or (len(suggestions_history) <= 0)
is_empty_history(history) == Len(history) <= 0

\* The round without its decay: improve_step is left as it is.
decay_none(step) == step

\* self.improve_step = self.improve_step * self.decay_rate
decay(step) == [num |-> step.num * DecayNum, den |-> step.den * DecayDen]

\* The loop before train_gps: every model gets this round's kernel draw.
new_kernels(models, round) == [i \in 1..NumGP |-> [models[i] EXCEPT !.kernel = round]]

\* train_gps storing each fitted model into self.gp as its result is read,
\* up to the first exception.
train_gps_in_place(models, outcome, round) ==
    [i \in 1..NumGP |->
        IF \A m \in 1..i : outcome[m] = "fitted"
        THEN [kernel |-> models[i].kernel, fitted |-> round]
        ELSE models[i]]

\* train_gps after pool.join(): res collects r.get() of every task in order,
\* the first exception leaves before self.gp = res; else self.gp = res.
train_gps(models, outcome, round) ==
    IF \A i \in 1..NumGP : outcome[i] = "fitted"
    THEN [i \in 1..NumGP |-> [kernel |-> models[i].kernel, fitted |-> round]]
    ELSE models

\* The collecting loop with the exception of a failed task caught and its
\* result skipped.
r_get_skip_failed(outcome) ==
    [raises |-> FALSE, got |-> IF outcome.error THEN <<>> ELSE <<outcome.value>>]

\* suggestion, max_acq = r.get(): the task's value, or its exception re-raised.
r_get(outcome) ==
    IF outcome.error THEN [raises |-> TRUE, got |-> <<>>]
    ELSE [raises |-> FALSE, got |-> <<outcome.value>>]

\* What one search task (get_single_suggest -> acq_max) can produce: an
\* exception, or a vector clipped to the bounds with its acquisition value.
SearchOutcomes(config) ==
    { [error |-> TRUE, value |-> <<>>] } \cup
    { [error |-> FALSE, value |-> <<clip(raw, get_bounds(config)), acq>>] :
        raw \in RawCandidates(config), acq \in AcqValues }

NoTasks == <<>>

Quiescent == pc \in {"idle", "returned", "raised"}

Init ==
    /\ \E sc \in Scenarios :
        /\ parameters_config = sc.config
        /\ n_suggestions = sc.n
    /\ de_duplication \in DeDuplicationSettings
    /\ iter = 0
    /\ improve_step = [num |-> ImproveStep, den |-> 1]
    /\ gp = InitEnsemble
    /\ pc = "idle"
    /\ raised = "none"
    /\ suggestions_history = <<>>
    /\ fit_res_l = NoTasks
    /\ res_l = NoTasks
    /\ collected = 0
    /\ suggestions_candidate = <<>>
    /\ suggestions = <<>>
    /\ origin = <<>>
    /\ examined = 0
    /\ next_suggestions = <<>>
    /\ rounds_with_history = 0
    /\ ei_pred = <<>>
    /\ ei_x_i = 0
    /\ ei_y_max = 0
    /\ ei_done = 0
    /\ maximum = None
    /\ AcqIdle

\* suggest, called with an empty history: the bootstrap branch, whole.
SuggestBootstrap ==
    /\ Quiescent
    /\ iter < MaxIter
    /\ \E history \in Histories(parameters_config) :
        /\ is_empty_history(history)
        /\ suggestions_history' = history
    /\ iter' = iter + 1
    /\ \E drawn \in init_param_group(parameters_config, n_suggestions) :
        next_suggestions' = drawn
    /\ pc' = "returned"
    /\ raised' = "none"
    /\ fit_res_l' = NoTasks
    /\ res_l' = NoTasks
    /\ collected' = 0
    /\ suggestions_candidate' = <<>>
    /\ suggestions' = <<>>
    /\ origin' = <<>>
    /\ examined' = 0
    /\ UNCHANGED <<parameters_config, n_suggestions, de_duplication, improve_step,
                   gp, rounds_with_history>>
    /\ UNCHANGED ei_vars
    /\ UNCHANGED acq_vars

\* suggest, called with a history: up to the submission of the fit tasks.
SuggestRound ==
    /\ Quiescent
    /\ iter < MaxIter
    /\ \E history \in Histories(parameters_config) :
        /\ ~is_empty_history(history)
        /\ suggestions_history' = history
    /\ iter' = iter + 1
    /\ improve_step' = decay(improve_step)
    /\ gp' = new_kernels(gp, iter + 1)
    /\ fit_res_l' = [i \in 1..NumGP |-> "running"]
    /\ pc' = "fitting"
    /\ raised' = "none"
    /\ res_l' = NoTasks
    /\ collected' = 0
    /\ suggestions_candidate' = <<>>
    /\ suggestions' = <<>>
    /\ origin' = <<>>
    /\ examined' = 0
    /\ next_suggestions' = <<>>
    /\ rounds_with_history' = rounds_with_history + 1
    /\ UNCHANGED <<parameters_config, n_suggestions, de_duplication>>
    /\ UNCHANGED ei_vars
    /\ UNCHANGED acq_vars

\* A fit worker finishes train_gp.
FitTaskDone ==
    /\ pc = "fitting"
    /\ \E i \in 1..NumGP :
        /\ fit_res_l[i] = "running"
        /\ fit_res_l' = [fit_res_l EXCEPT ![i] = "ready"]
    /\ UNCHANGED <<parameters_config, n_suggestions, de_duplication, iter,
                   improve_step, gp, pc, raised, suggestions_history, res_l,
                   collected, suggestions_candidate, suggestions, origin, examined,
                   next_suggestions, rounds_with_history>>
    /\ UNCHANGED ei_vars
    /\ UNCHANGED acq_vars

\* pool.join() returns, the results are read; then either the exception of a
\* failed fit leaves suggest, or the ensemble is replaced and the n + 2 search
\* tasks are submitted.
TrainJoin ==
    /\ pc = "fitting"
    /\ \A i \in 1..NumGP : fit_res_l[i] = "ready"
    /\ \E outcome \in [1..NumGP -> {"fitted", "error"}] :
        /\ gp' = train_gps(gp, outcome, iter)
        /\ IF \E i \in 1..NumGP : outcome[i] = "error"
           THEN /\ pc' = "raised"
                /\ raised' = "fit"
                /\ res_l' = res_l
           ELSE /\ pc' = "searching"
                /\ raised' = raised
                /\ res_l' = [index \in 1..(n_suggestions + 2) |-> "running"]
    /\ UNCHANGED <<parameters_config, n_suggestions, de_duplication, iter,
                   improve_step, suggestions_history, fit_res_l,
                   collected, suggestions_candidate, suggestions, origin, examined,
                   next_suggestions, rounds_with_history>>
    /\ UNCHANGED ei_vars
    /\ UNCHANGED acq_vars

\* A search worker finishes get_single_suggest.
SearchTaskDone ==
    /\ pc = "searching"
    /\ \E index \in 1..Len(res_l) :
        /\ res_l[index] = "running"
        /\ res_l' = [res_l EXCEPT ![index] = "ready"]
    /\ UNCHANGED <<parameters_config, n_suggestions, de_duplication, iter,
                   improve_step, gp, pc, raised, suggestions_history, fit_res_l,
                   collected, suggestions_candidate, suggestions, origin, examined,
                   next_suggestions, rounds_with_history>>
    /\ UNCHANGED ei_vars
    /\ UNCHANGED acq_vars

\* max_acq * (Lambda * index + 1), index counted from 0.
adjusted_score(max_acq, index) == max_acq * (Lambda * index + 1)

\* The tail of suggest once every result is in: sort, then the
\* de-duplication walk and its backfill, or the top n.  Every outcome the
\* random backfill allows.
diversify(config, dedup, xs, cands, n) ==
    LET sorted == sort_candidates(cands)
        w == walk(config, xs, sorted, n, 0, <<>>)
    IN  IF dedup
        THEN { [sorted |-> sorted,
                suggestions |-> w.suggestions \o drawn,
                origin |-> [i \in 1..(Len(w.suggestions) + Len(drawn)) |->
                               IF i <= Len(w.suggestions) THEN "candidate" ELSE "random"],
                examined |-> w.j] :
                 drawn \in backfill(config, n - Len(w.suggestions)) }
        ELSE { [sorted |-> sorted,
                suggestions |-> top_k(sorted, n),
                origin |-> [i \in 1..n |-> "candidate"],
                examined |-> 0] }

\* One turn of the collecting loop: r.get() of the next task in index order,
\* which waits for that task.  An exception leaves suggest; the last result
\* is followed by the ranking, the parsing and the return.
Collect ==
    /\ pc = "searching"
    /\ collected < Len(res_l)
    /\ res_l[collected + 1] = "ready"
    /\ \E outcome \in SearchOutcomes(parameters_config) :
        LET g == r_get(outcome)
            cands == suggestions_candidate \o
                     [i \in 1..Len(g.got) |->
                         [x |-> g.got[i][1],
                          score |-> adjusted_score(g.got[i][2], collected)]]
        IN  IF g.raises
            THEN /\ pc' = "raised"
                 /\ raised' = "search"
                 /\ UNCHANGED <<collected, suggestions_candidate, suggestions, origin,
                                examined, next_suggestions>>
            ELSE IF collected + 1 < Len(res_l)
            THEN /\ collected' = collected + 1
                 /\ suggestions_candidate' = cands
                 /\ UNCHANGED <<pc, raised, suggestions, origin, examined,
                                next_suggestions>>
            ELSE \E d \in diversify(parameters_config, de_duplication,
                                    x_datas(parameters_config, suggestions_history),
                                    cands, n_suggestions) :
                 /\ collected' = collected + 1
                 /\ suggestions_candidate' = d.sorted
                 /\ suggestions' = d.suggestions
                 /\ origin' = d.origin
                 /\ examined' = d.examined
                 /\ next_suggestions' = parse_suggestions(parameters_config, d.suggestions)
                 /\ pc' = "returned"
                 /\ UNCHANGED raised
    /\ UNCHANGED <<parameters_config, n_suggestions, de_duplication, iter,
                   improve_step, gp, suggestions_history, fit_res_l, res_l,
                   rounds_with_history>>
    /\ UNCHANGED ei_vars
    /\ UNCHANGED acq_vars

Next ==
    \/ SuggestBootstrap
    \/ SuggestRound
    \/ FitTaskDone
    \/ TrainJoin
    \/ SearchTaskDone
    \/ Collect

Spec == Init /\ [][Next]_vars

(***************************************************************************)
(* _ei on its own: the inputs are drawn at the start, each step folds one  *)
(* member of g_p into maximum; the value is returned when all are folded.  *)
(***************************************************************************)
Predictions(size) == [1..size -> [mean : Means, std : Stds]]

InitEI ==
    /\ parameters_config = (CHOOSE sc \in Scenarios : sc.n = 2).config
    /\ n_suggestions = 2
    /\ de_duplication = TRUE
    /\ iter = 0
    /\ improve_step = [num |-> ImproveStep, den |-> 1]
    /\ gp = InitEnsemble
    /\ pc = "idle"
    /\ raised = "none"
    /\ suggestions_history = <<>>
    /\ fit_res_l = NoTasks
    /\ res_l = NoTasks
    /\ collected = 0
    /\ suggestions_candidate = <<>>
    /\ suggestions = <<>>
    /\ origin = <<>>
    /\ examined = 0
    /\ next_suggestions = <<>>
    /\ rounds_with_history = 0
    /\ \E members \in 1..MaxMembers, size \in BatchSizes :
        ei_pred \in [1..members -> Predictions(size)]
    /\ ei_x_i \in XiValues
    /\ ei_y_max = 0
    /\ ei_done = 0
    /\ maximum = None
    /\ AcqIdle

EIStep ==
    /\ ei_done < Len(ei_pred)
    /\ maximum' = ei_fold(maximum, ei_pred[ei_done + 1], ei_y_max, ei_x_i)
    /\ ei_done' = ei_done + 1
    /\ UNCHANGED <<ei_pred, ei_x_i, ei_y_max>>
    /\ UNCHANGED searcher_vars
    /\ UNCHANGED acq_vars

NextEI == EIStep

SpecEI == InitEI /\ [][NextEI]_vars

(***************************************************************************)
(* acq_max on its own: the warm-up, one step per local run (x_seeds in     *)
(* order), then the return.  f_acq is _ei, so an acquisition value is any  *)
(* float _ei can give, NaN included.                                       *)
(***************************************************************************)
\* The warm-up has MaxWarmup points (400 in get_single_suggest).
MaxWarmup == 2

\* num_starting_points = int(NumStartingPoints + Increase * self.iter), which
\* is NumStartingPoints in the first rounds.
NumStartingPoints == 2

\* The values f_acq can give at one point: _ei's values there.
AcqMeans == {0, 1}

AcqFloats == { ei_value(mean, std, 0, 0) : mean \in AcqMeans, std \in Stds }

\* The parameter space acq_max searches here.
AcqConfig == [p1 |-> [coords |-> <<0, 2>>, min |-> 0, max |-> 2]]

\* ys.max(): NaN when any entry is NaN, else the largest entry.
np_max(a) ==
    IF \E i \in 1..Len(a) : a[i].nan THEN NaN
    ELSE a[CHOOSE i \in 1..Len(a) : \A m \in 1..Len(a) : a[m].v <= a[i].v]

\* ys.argmax(): the index of the first NaN, else the first index of the
\* largest entry.
np_argmax(a) ==
    IF \E i \in 1..Len(a) : a[i].nan
    THEN CHOOSE i \in 1..Len(a) : a[i].nan /\ \A m \in 1..(i - 1) : ~a[m].nan
    ELSE CHOOSE i \in 1..Len(a) :
             /\ \A m \in 1..Len(a) : a[m].v <= a[i].v
             /\ \A m \in 1..(i - 1) : a[m].v < a[i].v

\* A float comparison p >= q: false whenever an operand is NaN.
geq(p, q) == ~p.nan /\ ~q.nan /\ p.v >= q.v

\* The body of "for x_try in x_seeds" after minimize: a run without success
\* is skipped; one with -res.fun[0] >= max_acq (or max_acq None) becomes the
\* incumbent.
local_run(incumbent, res) ==
    IF ~res.success THEN incumbent
    ELSE IF incumbent.acq = None \/ geq(res.acq, incumbent.acq)
    THEN [x |-> res.x, acq |-> res.acq]
    ELSE incumbent

\* What minimize can report for one seed: success or not, res.x (in the box
\* or overshooting a bound by a small amount) and -res.fun[0].
MinimizeResults(config) ==
    [success : BOOLEAN, x : RawCandidates(config), acq : AcqFloats]

InitAcq ==
    /\ parameters_config = AcqConfig
    /\ n_suggestions = 2
    /\ de_duplication = TRUE
    /\ iter = 0
    /\ improve_step = [num |-> ImproveStep, den |-> 1]
    /\ gp = InitEnsemble
    /\ pc = "idle"
    /\ raised = "none"
    /\ suggestions_history = <<>>
    /\ fit_res_l = NoTasks
    /\ res_l = NoTasks
    /\ collected = 0
    /\ suggestions_candidate = <<>>
    /\ suggestions = <<>>
    /\ origin = <<>>
    /\ examined = 0
    /\ next_suggestions = <<>>
    /\ rounds_with_history = 0
    /\ ei_pred = <<>>
    /\ ei_x_i = 0
    /\ ei_y_max = 0
    /\ ei_done = 0
    /\ maximum = None
    /\ AcqIdle

\* x_tries, ys = f_acq(x_tries), x_max = x_tries[ys.argmax()], max_acq = ys.max()
AcqWarmup ==
    /\ acq_pc = "idle"
    /\ x_tries' \in [1..MaxWarmup -> random_sample(parameters_config)]
    /\ ys' \in [1..MaxWarmup -> AcqFloats]
    /\ best_x' = x_tries'[np_argmax(ys')]
    /\ best_acq' = np_max(ys')
    /\ acq_pc' = "warm"
    /\ UNCHANGED <<acq_runs, acq_result>>
    /\ UNCHANGED searcher_vars
    /\ UNCHANGED ei_vars

\* One turn of "for x_try in x_seeds".
AcqLocalRun ==
    /\ acq_pc = "warm"
    /\ Len(acq_runs) < NumStartingPoints
    /\ \E res \in MinimizeResults(parameters_config) :
        LET after == local_run([x |-> best_x, acq |-> best_acq], res)
        IN  /\ best_x' = after.x
            /\ best_acq' = after.acq
            /\ acq_runs' = Append(acq_runs,
                              [res |-> res,
                               before |-> [x |-> best_x, acq |-> best_acq],
                               after |-> after])
    /\ UNCHANGED <<acq_pc, x_tries, ys, acq_result>>
    /\ UNCHANGED searcher_vars
    /\ UNCHANGED ei_vars

\* return np.clip(x_max, bounds[:, 0], bounds[:, 1]), max_acq
AcqReturn ==
    /\ acq_pc = "warm"
    /\ Len(acq_runs) = NumStartingPoints
    /\ acq_result' = <<clip(best_x, get_bounds(parameters_config)), best_acq>>
    /\ acq_pc' = "returned"
    /\ UNCHANGED <<x_tries, ys, best_x, best_acq, acq_runs>>
    /\ UNCHANGED searcher_vars
    /\ UNCHANGED ei_vars

NextAcq ==
    \/ AcqWarmup
    \/ AcqLocalRun
    \/ AcqReturn

SpecAcq == InitAcq /\ [][NextAcq]_vars

(***************************************************************************)
(* Properties of suggest                                                   *)
(***************************************************************************)
OnGrid(config, v) ==
    \A index \in 1..Len(v) :
        \E c \in 1..Len(config[p_names(config)[index]].coords) :
            config[p_names(config)[index]].coords[c] = v[index]

HistoryVectors ==
    { [index \in 1..Len(p_names(parameters_config)) |->
          suggestions_history[h][1][p_names(parameters_config)[index]]] :
        h \in 1..Len(suggestions_history) }

GridPoints ==
    { v \in [1..Len(p_names(parameters_config)) -> 0..7] : OnGrid(parameters_config, v) }

\* C1: whenever suggest returns, it returns exactly n_suggestions
\* assignments: after a bootstrap call, after a round with de-duplication
\* (accepted candidates plus backfill) and after one without (top k).
C1_ReturnsExactlyK ==
    pc = "returned" => Len(next_suggestions) = n_suggestions

\* A round with de-duplication returned one accepted candidate and one
\* backfilled point.
C1_Witness ==
    /\ pc = "returned"
    /\ de_duplication
    /\ suggestions_history # <<>>
    /\ Len(next_suggestions) = 2
    /\ origin = <<"candidate", "random">>

\* C2: every returned assignment gives every configured parameter name a
\* value of that parameter's coords.
C2_ValuesAreCoords ==
    pc = "returned" =>
        \A s \in 1..Len(next_suggestions) :
            /\ DOMAIN next_suggestions[s] = DOMAIN parameters_config
            /\ \A nm \in DOMAIN parameters_config :
                \E c \in 1..Len(parameters_config[nm].coords) :
                    parameters_config[nm].coords[c] = next_suggestions[s][nm]

\* A two-parameter round returned an accepted candidate whose vector was not
\* on the grid.
C2_Witness ==
    /\ pc = "returned"
    /\ DOMAIN parameters_config = {"p1", "p2"}
    /\ Len(origin) = 1
    /\ origin[1] = "candidate"
    /\ ~OnGrid(parameters_config, suggestions[1])
    /\ next_suggestions[1].p2 = 5

\* C3: with p1's coords [0, 1, 2] (0, 2, 4 in half steps), the history
\* [({p1: 0}, -5)], one suggestion and de-duplication on, suggest returns
\* {p1: 1} or {p1: 2}, never {p1: 0}.
C3_NeverTheObservedPoint ==
    ( /\ pc = "returned"
      /\ de_duplication
      /\ n_suggestions = 1
      /\ DOMAIN parameters_config = {"p1"}
      /\ parameters_config.p1.coords = <<0, 2, 4>>
      /\ Len(suggestions_history) = 1
      /\ HistoryVectors = {<<0>>} )
    => next_suggestions[1].p1 \in {2, 4}

\* C4: a call with an empty history returns in one step, with no fit task
\* and no search task started, the ensemble as it was, and n_suggestions
\* assignments whose values are all coords.
C4_BootstrapUsesNoModel ==
    /\ [](suggestions_history = <<>> =>
            /\ pc \in {"idle", "returned"}
            /\ fit_res_l = NoTasks
            /\ res_l = NoTasks)
    /\ [][(iter' = iter + 1 /\ suggestions_history' = <<>>) =>
            /\ gp' = gp
            /\ pc' = "returned"
            /\ Len(next_suggestions') = n_suggestions
            /\ \A s \in 1..Len(next_suggestions') :
                 \A nm \in DOMAIN parameters_config :
                    \E c \in 1..Len(parameters_config[nm].coords) :
                        parameters_config[nm].coords[c] = next_suggestions'[s][nm]]_vars

\* A bootstrap call returned on a Searcher whose ensemble an earlier round fitted.
C4_Witness ==
    /\ pc = "returned"
    /\ suggestions_history = <<>>
    /\ iter = 2
    /\ gp[1].fitted = 1
    /\ Len(next_suggestions) = n_suggestions

\* C5: with de-duplication on and a history that covers the whole grid, the
\* walk rejects all k + 2 candidates and all k returned suggestions come
\* from the random backfill.
C5_FullCoverageAllBackfill ==
    ( /\ pc = "returned"
      /\ de_duplication
      /\ GridPoints \subseteq HistoryVectors )
    => /\ examined = n_suggestions + 2
       /\ Len(origin) = n_suggestions
       /\ \A i \in 1..Len(origin) : origin[i] = "random"

\* Such a round returned, and one of its candidates was not on the grid
\* before snapping.
C5_Witness ==
    /\ pc = "returned"
    /\ de_duplication
    /\ suggestions_history # <<>>
    /\ GridPoints \subseteq HistoryVectors
    /\ \E c \in 1..Len(suggestions_candidate) :
        ~OnGrid(parameters_config, suggestions_candidate[c].x)
    /\ origin = <<"random", "random">>

C8_EnsembleReplacedAsAWhole ==
    /\ Len(gp) = NumGP
    /\ \A i, m \in 1..Len(gp) : gp[i].fitted = gp[m].fitted
    /\ res_l # NoTasks =>
        /\ Len(fit_res_l) = NumGP
        /\ \A i \in 1..Len(fit_res_l) : fit_res_l[i] = "ready"
        /\ \A i \in 1..Len(gp) : gp[i].fitted = iter /\ gp[i].kernel = iter
    /\ raised = "fit" =>
        /\ pc = "raised"
        /\ res_l = NoTasks
        /\ next_suggestions = <<>>
        /\ \A i \in 1..Len(gp) : gp[i].fitted < iter

\* A fit failed in the second round, on an ensemble the first round fitted.
C8_Witness ==
    /\ pc = "raised"
    /\ raised = "fit"
    /\ iter = 2
    /\ \A i \in 1..Len(gp) : gp[i].fitted = 1 /\ gp[i].kernel = 2

RECURSIVE Pow(_, _)
Pow(b, e) == IF e = 0 THEN 1 ELSE b * Pow(b, e - 1)

\* C9 as stated: after n calls improve_step has decayed n times:
\* improve_step = ImproveStep * 0.9 ^ iter.
C9_DecaysEveryCall ==
    improve_step.num * Pow(DecayDen, iter) = ImproveStep * Pow(DecayNum, iter) * improve_step.den

\* C9 as amended: a call with a non-empty history multiplies improve_step by
\* 0.9, a call with an empty history and every other step leave it, so
\* improve_step = ImproveStep * 0.9 ^ (calls with a non-empty history).
C9_DecaysPerRoundWithHistory ==
    /\ [](/\ improve_step.num = ImproveStep * Pow(9, rounds_with_history)
          /\ improve_step.den = Pow(10, rounds_with_history)
          /\ rounds_with_history <= iter)
    /\ [][/\ (iter' = iter + 1 /\ suggestions_history' # <<>>) =>
                /\ improve_step'.num * 10 = improve_step.num * 9 * (improve_step'.den \div improve_step.den)
                /\ improve_step'.den = improve_step.den * 10
                /\ rounds_with_history' = rounds_with_history + 1
          /\ (iter' = iter + 1 /\ suggestions_history' = <<>>) =>
                /\ improve_step' = improve_step
                /\ rounds_with_history' = rounds_with_history
          /\ iter' = iter =>
                /\ improve_step' = improve_step
                /\ rounds_with_history' = rounds_with_history]_vars

\* Two calls, one of them with a history: one decay.
C9_Witness ==
    /\ iter = 2
    /\ rounds_with_history = 1
    /\ improve_step = [num |-> 27, den |-> 10]
    /\ pc = "returned"
    /\ suggestions_history # <<>>

\* The indices of the sorted candidates whose snapped vector is no history vector.
NonDuplicates ==
    { c \in 1..Len(suggestions_candidate) :
        get_valid_suggestion(parameters_config, suggestions_candidate[c].x)
            \notin HistoryVectors }

\* The t-th smallest member of a set of indices.
Nth(S, t) == CHOOSE c \in S : Cardinality({ b \in S : b < c }) = t - 1

C6_MaxEnvelope ==
    (ei_done > 0 /\ ei_done = Len(ei_pred)) =>
        \A c \in 1..Len(maximum) :
            LET vals == { ei_pred[g][c] : g \in 1..Len(ei_pred) }
                defined == { ei_value(q.mean, q.std, ei_y_max, ei_x_i).v : q \in
                               { q \in vals : ~ei_value(q.mean, q.std, ei_y_max, ei_x_i).nan } }
            IN  defined # {} =>
                    /\ ~maximum[c].nan
                    /\ maximum[c].v \in defined
                    /\ \A v \in defined : maximum[c].v >= v

(***************************************************************************)
(* Properties of acq_max                                                   *)
(***************************************************************************)
\* The acquisition values acq_max has seen: the warm-up's and those of the
\* local runs that reported success.
AcqSeen ==
    { ys[w] : w \in 1..Len(ys) } \cup
    { acq_runs[r].res.acq : r \in { q \in 1..Len(acq_runs) : acq_runs[q].res.success } }

AcqSeenDefined == { f.v : f \in { g \in AcqSeen : ~g.nan } }

\* A local run without success leaves the incumbent and its value; one with
\* success replaces them exactly when its value is at least the current best.
AcqRunsFoldedRight ==
    \A r \in 1..Len(acq_runs) :
        LET e == acq_runs[r]
        IN  IF /\ e.res.success
               /\ ~e.res.acq.nan
               /\ ~e.before.acq.nan
               /\ e.res.acq.v >= e.before.acq.v
            THEN e.after = [x |-> e.res.x, acq |-> e.res.acq]
            ELSE e.after = e.before

\* Every component of the returned candidate is within its parameter's bounds.
AcqResultInBounds ==
    acq_pc = "returned" =>
        \A index \in 1..Len(acq_result[1]) :
            /\ acq_result[1][index] >= parameters_config[p_names(parameters_config)[index]].min
            /\ acq_result[1][index] <= parameters_config[p_names(parameters_config)[index]].max

\* The returned value is the largest of the values seen.
AcqResultIsMaximum ==
    (acq_pc = "returned" /\ AcqSeenDefined # {}) =>
        /\ ~acq_result[2].nan
        /\ acq_result[2].v \in AcqSeenDefined
        /\ \A v \in AcqSeenDefined : acq_result[2].v >= v

\* C11: acq_max returns the best of the warm-up incumbent and the converged
\* local runs: a run without success changes nothing, a converged run
\* replaces the incumbent exactly when its value is at least the current
\* best, the returned value is the maximum over the warm-up values and the
\* converged runs' values, and the returned candidate is within the bounds.
C11_BestOfWarmupAndConverged ==
    /\ AcqRunsFoldedRight
    /\ AcqResultInBounds
    /\ AcqResultIsMaximum

\* The same with every warm-up value defined (no NaN from _ei in ys).
C11_WithDefinedWarmup ==
    (\A w \in 1..Len(ys) : ~ys[w].nan) => C11_BestOfWarmupAndConverged

====
